---- MODULE Spec2Model ----
(***************************************************************************)
(* alarmclock.py: parse a time-of-day string, resolve its next occurrence, *)
(* poll the clock until it is reached, play a sound, exit.                 *)
(*                                                                         *)
(* Strings are sequences of one-character strings, so that parsing is done *)
(* character by character as datetime.strptime does it.                    *)
(***************************************************************************)
EXTENDS Integers, Sequences, FiniteSets, TLC

(***************************************************************************)
(* Characters                                                              *)
(***************************************************************************)
Digits == <<"0", "1", "2", "3", "4", "5", "6", "7", "8", "9">>

DigitSet == {Digits[i] : i \in 1..Len(Digits)}

DigitVal(c) == (CHOOSE i \in 1..Len(Digits) : Digits[i] = c) - 1

\* str.strip() / regex \s : the whitespace characters of the model's alphabet
Whitespace == {" "}

\* str.lower() on the letters of the meridiem
Lower(c) == CASE c = "A" -> "a" [] c = "P" -> "p" [] c = "M" -> "m" [] OTHER -> c

\* s[i], or a character that matches nothing when i is past the end
At(s, i) == IF i >= 1 /\ i <= Len(s) THEN s[i] ELSE "$"

\* int() of a string of decimal digits
RECURSIVE ToInt(_)
ToInt(ds) == IF Len(ds) = 0 THEN 0
             ELSE 10 * ToInt(SubSeq(ds, 1, Len(ds) - 1)) + DigitVal(ds[Len(ds)])

(***************************************************************************)
(* timestr.strip()                                                         *)
(***************************************************************************)
RECURSIVE LStrip(_)
LStrip(s) == IF Len(s) > 0 /\ Head(s) \in Whitespace THEN LStrip(Tail(s)) ELSE s

RECURSIVE RStrip(_)
RStrip(s) == IF Len(s) > 0 /\ s[Len(s)] \in Whitespace
             THEN RStrip(SubSeq(s, 1, Len(s) - 1)) ELSE s

Strip(s) == RStrip(LStrip(s))

(***************************************************************************)
(* datetime.strptime(timestr, fmt).  A format is a sequence of tokens: the *)
(* directives "I" "M" "H" "p", the literal ":" and "ws" for a blank of the *)
(* format, which strptime turns into the regex \s+.  The regex of a        *)
(* directive is an ordered alternation; the regex engine takes the first   *)
(* alternative that lets the rest of the pattern match (backtracking), the *)
(* pattern is not anchored at the end, and strptime rejects a match that   *)
(* leaves characters unconverted.                                          *)
(***************************************************************************)
\* parse_formats with "%H:%M %p" as its first format
parse_formats_24h_meridiem == << <<"H", ":", "M", "ws", "p">>,
                                 <<"I", ":", "M", "p">>,
                                 <<"H", ":", "M">>,
                                 <<"H", "M">>,
                                 <<"I", "ws", "p">>,
                                 <<"I", "M", "ws", "p">> >>

\* parse_formats with "%I:%M" as its third format
parse_formats_12h_plain == << <<"I", ":", "M", "ws", "p">>,
                              <<"I", ":", "M", "p">>,
                              <<"I", ":", "M">>,
                              <<"H", "M">>,
                              <<"I", "ws", "p">>,
                              <<"I", "M", "ws", "p">> >>

parse_formats == << <<"I", ":", "M", "ws", "p">>,
                    <<"I", ":", "M", "p">>,
                    <<"H", ":", "M">>,
                    <<"H", "M">>,
                    <<"I", "ws", "p">>,
                    <<"I", "M", "ws", "p">> >>

\* number of whitespace characters of s from position i on
RECURSIVE WsRun(_, _)
WsRun(s, i) == IF At(s, i) \in Whitespace THEN 1 + WsRun(s, i + 1) ELSE 0

Opt(cond, len) == IF cond THEN <<len>> ELSE <<>>

\* The lengths the token can consume at position i, in the regex's order of
\* preference.
\*   %I  (1[0-2]|0[1-9]|[1-9])     %H  (2[0-3]|[0-1]\d|\d)
\*   %M  ([0-5]\d|\d)              %p  (am|pm), ignoring case
\*   ' ' \s+ (greedy)
AltLens(tok, s, i) ==
    LET a == At(s, i)
        b == At(s, i + 1)
    IN CASE tok = "I" ->
              Opt(a = "1" /\ b \in {"0", "1", "2"}, 2)
              \o Opt(a = "0" /\ b \in DigitSet \ {"0"}, 2)
              \o Opt(a \in DigitSet \ {"0"}, 1)
         [] tok = "H" ->
              Opt(a = "2" /\ b \in {"0", "1", "2", "3"}, 2)
              \o Opt(a \in {"0", "1"} /\ b \in DigitSet, 2)
              \o Opt(a \in DigitSet, 1)
         [] tok = "M" ->
              Opt(a \in {"0", "1", "2", "3", "4", "5"} /\ b \in DigitSet, 2)
              \o Opt(a \in DigitSet, 1)
         [] tok = "p" ->
              Opt(Lower(a) \in {"a", "p"} /\ Lower(b) = "m", 2)
         [] tok = "ws" ->
              [j \in 1..WsRun(s, i) |-> WsRun(s, i) - j + 1]
         [] OTHER ->
              Opt(a = tok, 1)

NoGroups == [I |-> <<>>, H |-> <<>>, M |-> <<>>, p |-> <<>>]

NoMatch == [found |-> FALSE, end |-> 0, g |-> NoGroups]

Capture(g, tok, text) ==
    IF tok \in {"I", "H", "M", "p"} THEN [g EXCEPT ![tok] = text] ELSE g

\* re.match: tokens k.. of fmt against s from position i; the first match in
\* backtracking order
RECURSIVE MatchFrom(_, _, _, _, _)
RECURSIVE TryAlts(_, _, _, _, _, _, _)
MatchFrom(fmt, k, s, i, g) ==
    IF k > Len(fmt) THEN [found |-> TRUE, end |-> i - 1, g |-> g]
    ELSE TryAlts(fmt, k, s, i, g, AltLens(fmt[k], s, i), 1)

TryAlts(fmt, k, s, i, g, alts, j) ==
    IF j > Len(alts) THEN NoMatch
    ELSE LET n == alts[j]
             r == MatchFrom(fmt, k + 1, s, i + n,
                            Capture(g, fmt[k], SubSeq(s, i, i + n - 1)))
         IN IF r.found THEN r ELSE TryAlts(fmt, k, s, i, g, alts, j + 1)

NoTime == [hour |-> -1, minute |-> -1]

\* _strptime: %I with %p gives the 24-hour hour
HourOf(g) ==
    IF g.H # <<>> THEN ToInt(g.H)
    ELSE LET h == ToInt(g.I)
             ampm == [n \in 1..Len(g.p) |-> Lower(g.p[n])]
         IN IF ampm \in {<<>>, <<"a", "m">>}
            THEN (IF h = 12 THEN 0 ELSE h)
            ELSE (IF h # 12 THEN h + 12 ELSE h)

\* datetime.strptime(s, fmt).time(): ok = FALSE stands for the ValueError
strptime(s, fmt) ==
    LET m == MatchFrom(fmt, 1, s, 1, NoGroups)
    IN IF ~m.found \/ m.end # Len(s)
       THEN [ok |-> FALSE, time |-> NoTime]
       ELSE [ok |-> TRUE,
             time |-> [hour |-> HourOf(m.g), minute |-> ToInt(m.g.M)]]

(***************************************************************************)
(* parse_target_time                                                       *)
(***************************************************************************)
\* the for loop over parse_formats from the k-th format on
\* the for loop without its return: the last format that matches decides
RECURSIVE TryFormats_last(_, _)
TryFormats_last(s, k) ==
    IF k > Len(parse_formats)
    THEN [ok |-> FALSE, time |-> NoTime, fmt |-> 0, msg |-> s]
    ELSE LET r == strptime(s, parse_formats[k])
             rest == TryFormats_last(s, k + 1)
         IN IF rest.ok THEN rest
            ELSE IF r.ok THEN [ok |-> TRUE, time |-> r.time, fmt |-> k, msg |-> <<>>]
            ELSE rest

RECURSIVE TryFormats(_, _)
TryFormats(s, k) ==
    IF k > Len(parse_formats)
    THEN [ok |-> FALSE, time |-> NoTime, fmt |-> 0, msg |-> s]
    ELSE LET r == strptime(s, parse_formats[k])
         IN IF r.ok THEN [ok |-> TRUE, time |-> r.time, fmt |-> k, msg |-> <<>>]
            ELSE TryFormats(s, k + 1)

\* ok = FALSE stands for the ValueError, msg for the string its message quotes
parse_target_time(timestr) == TryFormats(Strip(timestr), 1)

(***************************************************************************)
(* Instants: the fields of a naive datetime, the date as a day number.     *)
(***************************************************************************)
NoInstant == [date |-> -1, hour |-> 0, minute |-> 0, second |-> 0, microsecond |-> 0]

\* seconds since day 0, the microsecond apart
Seconds(t) == ((t.date * 24 + t.hour) * 60 + t.minute) * 60 + t.second

\* datetime comparison a <= b
DtLeq(a, b) ==
    \/ Seconds(a) < Seconds(b)
    \/ Seconds(a) = Seconds(b) /\ a.microsecond <= b.microsecond

\* datetime.combine(date, time): a time parsed by strptime has no seconds
combine(date, t) ==
    [date |-> date, hour |-> t.hour, minute |-> t.minute,
     second |-> 0, microsecond |-> 0]

\* dt + timedelta(days=n) that also keeps no day apart: weeks for days
PlusDays_weeks(dt, n) == [dt EXCEPT !.date = @ + 7 * n]

\* dt + timedelta(days=n)
PlusDays(dt, n) == [dt EXCEPT !.date = @ + n]

\* confirm_target_today with "candidate < now" as its test
confirm_target_today_lt(target_time, now) ==
    LET candidate == combine(now.date, target_time)
    IN IF DtLeq(candidate, now) /\ candidate # now
       THEN PlusDays(candidate, 1) ELSE candidate

\* confirm_target_today that builds its candidate with
\* now.replace(hour=..., minute=...): the second and microsecond of now stay
confirm_target_today_replace(target_time, now) ==
    LET candidate == [now EXCEPT !.hour = target_time.hour,
                                 !.minute = target_time.minute]
    IN IF DtLeq(candidate, now) THEN PlusDays(candidate, 1) ELSE candidate

\* confirm_target_today that always takes the target on the day after now
confirm_target_today_tomorrow(target_time, now) ==
    PlusDays(combine(now.date, target_time), 1)

\* confirm_target_today with datetime.now() = now
confirm_target_today(target_time, now) ==
    LET candidate == combine(now.date, target_time)
    IN IF DtLeq(candidate, now) THEN PlusDays(candidate, 1) ELSE candidate

(***************************************************************************)
(* Program constants                                                       *)
(***************************************************************************)
DEFAULT_TIME == <<"7", ":", "0", "0", " ", "A", "M">>

DEFAULT_SOUND == "alarm.aif"

INTERVAL_SECONDS == 1

(***************************************************************************)
(* Bounds and inputs                                                       *)
(***************************************************************************)
\* clock readings fall on days 0..MaxDate
MaxDate == 1

\* at most MaxPolls readings of the clock in the wait loop
MaxPolls == 3

Instant(d, t) ==
    [date |-> d, hour |-> t[1], minute |-> t[2], second |-> t[3], microsecond |-> t[4]]

\* times of day the host clock shows in a run of main
ClockTimes == {<<6, 59, 59, 999999>>, <<7, 0, 0, 0>>}

ClockSamples == {Instant(d, t) : d \in 0..MaxDate, t \in ClockTimes}

\* command lines of a run of main
ArgvSamples == {<<>>,
                << <<"7", ":", "0", "0">> >>,
                << <<"n", "o", "o", "n">> >>,
                << <<" ", "7", ":", "0", "0", "P", "M">>, "custom.wav">>,
                << <<"7", ":", "9", "9", " ", "A", "M">>, "custom.wav">>}

Platforms == {"darwin", "linux", "win32", "other"}

(***************************************************************************)
(* State                                                                   *)
(***************************************************************************)
VARIABLES
    argv,         \* sys.argv[1:]
    platform,     \* sys.platform
    pc,           \* the statement main is about to execute
    target_str,   \* main: target_str
    soundfile,    \* main: soundfile
    target_time,  \* main: target_time (NoTime before it is parsed)
    err,          \* the string quoted by the ValueError of parse_target_time
    clock,        \* the host clock, what datetime.now() returns
    confirm_now,  \* confirm_target_today: now
    alarm_dt,     \* main: alarm_dt (NoInstant before it is computed)
    now,          \* main: now, the last reading of the wait loop
    readings,     \* every reading of the wait loop so far
    calls,        \* number of calls of play_sound
    attempts,     \* play_sound: the playback mechanisms attempted so far
    cmd,          \* play_sound: index of the Linux command being tried
    exc,          \* the exception play_sound raised ("" for none)
    out,          \* the messages printed
    exit_code,    \* the exit status (-1 while running)
    interrupted,  \* a KeyboardInterrupt has been delivered
    isfile,       \* what os.path.isfile answered in play_sound (<<>> before)
    interrupt_pc  \* the statement the KeyboardInterrupt was raised at ("" for none)

vars == <<argv, platform, pc, target_str, soundfile, target_time, err, clock,
          confirm_now, alarm_dt, now, readings, calls, attempts, cmd, exc, out,
          exit_code, interrupted, isfile, interrupt_pc>>

\* the state of a process before any statement of main
Fresh ==
    /\ target_str = <<>>
    /\ soundfile = ""
    /\ target_time = NoTime
    /\ err = <<>>
    /\ confirm_now = NoInstant
    /\ alarm_dt = NoInstant
    /\ now = NoInstant
    /\ readings = <<>>
    /\ calls = 0
    /\ attempts = <<>>
    /\ cmd = 0
    /\ exc = ""
    /\ out = <<>>
    /\ exit_code = -1
    /\ interrupted = FALSE
    /\ isfile = <<>>
    /\ interrupt_pc = ""

Init ==
    /\ argv \in ArgvSamples
    /\ platform \in Platforms
    /\ clock \in ClockSamples
    /\ pc = "args"
    /\ Fresh

(***************************************************************************)
(* main, statement by statement                                            *)
(***************************************************************************)
\* lines 119-130: the command line and its defaults
ReadArgs ==
    /\ pc = "args"
    /\ target_str' = IF Len(argv) = 0 THEN DEFAULT_TIME ELSE argv[1]
    /\ soundfile' = IF Len(argv) <= 1 THEN DEFAULT_SOUND ELSE argv[2]
    /\ pc' = "parse"
    /\ UNCHANGED <<argv, platform, target_time, err, clock, confirm_now, alarm_dt,
                   now, readings, calls, attempts, cmd, exc, out, exit_code,
                   interrupted,
                   isfile, interrupt_pc>>

\* Parse that reports a ValueError and goes on with the default time
Parse_fallback ==
    /\ pc = "parse"
    /\ LET r == parse_target_time(target_str)
       IN IF r.ok
          THEN /\ target_time' = r.time
               /\ UNCHANGED <<err, out>>
          ELSE /\ err' = r.msg
               /\ out' = out \o <<"Error", "Accepted formats">>
               /\ target_time' = parse_target_time(DEFAULT_TIME).time
    /\ pc' = "confirm"
    /\ UNCHANGED <<argv, platform, target_str, soundfile, clock, confirm_now,
                   alarm_dt, now, readings, calls, attempts, cmd, exc, exit_code,
                   interrupted,
                   isfile, interrupt_pc>>

\* lines 133-139: parse the target time; a ValueError is reported and ends
\* the process with status 2
Parse ==
    /\ pc = "parse"
    /\ LET r == parse_target_time(target_str)
       IN IF r.ok
          THEN /\ target_time' = r.time
               /\ pc' = "confirm"
               /\ UNCHANGED <<err, out, exit_code>>
          ELSE /\ err' = r.msg
               /\ out' = out \o <<"Error", "Accepted formats">>
               /\ exit_code' = 2
               /\ pc' = "exited"
               /\ UNCHANGED target_time
    /\ UNCHANGED <<argv, platform, target_str, soundfile, clock, confirm_now,
                   alarm_dt, now, readings, calls, attempts, cmd, exc, interrupted,
                   isfile, interrupt_pc>>

\* Confirm that looks for the sound file at startup and fails right away
\* when it is missing
Confirm_precheck(c) ==
    /\ pc = "confirm"
    /\ confirm_now' = clock
    /\ alarm_dt' = confirm_target_today(target_time, clock)
    /\ out' = out \o <<"Alarm set for", "Sound file">>
    /\ clock' = c
    /\ \E exists \in BOOLEAN :
          /\ isfile' = <<exists>>
          /\ IF exists THEN pc' = "poll" /\ UNCHANGED exc
             ELSE pc' = "failed" /\ exc' = "FileNotFoundError"
    /\ UNCHANGED <<argv, platform, target_str, soundfile, target_time, err, now,
                   readings, calls, attempts, cmd, exit_code, interrupted,
                   interrupt_pc>>

\* lines 142-145: resolve the next occurrence and announce it; the clock
\* shows c when the wait loop is entered
Confirm(c) ==
    /\ pc = "confirm"
    /\ confirm_now' = clock
    /\ alarm_dt' = confirm_target_today(target_time, clock)
    /\ out' = out \o <<"Alarm set for", "Sound file">>
    /\ clock' = c
    /\ pc' = "poll"
    /\ UNCHANGED <<argv, platform, target_str, soundfile, target_time, err, now,
                   readings, calls, attempts, cmd, exc, exit_code, interrupted,
                   isfile, interrupt_pc>>

\* Poll with "now > alarm_dt" as its test
Poll_strict ==
    /\ pc = "poll"
    /\ Len(readings) < MaxPolls
    /\ now' = clock
    /\ readings' = Append(readings, clock)
    /\ pc' = IF DtLeq(alarm_dt, clock) /\ alarm_dt # clock THEN "reached" ELSE "sleep"
    /\ UNCHANGED <<argv, platform, target_str, soundfile, target_time, err, clock,
                   confirm_now, alarm_dt, calls, attempts, cmd, exc, out,
                   exit_code, interrupted,
                   isfile, interrupt_pc>>

\* Poll with "now == alarm_dt" as its test
Poll_equal ==
    /\ pc = "poll"
    /\ Len(readings) < MaxPolls
    /\ now' = clock
    /\ readings' = Append(readings, clock)
    /\ pc' = IF alarm_dt = clock THEN "reached" ELSE "sleep"
    /\ UNCHANGED <<argv, platform, target_str, soundfile, target_time, err, clock,
                   confirm_now, alarm_dt, calls, attempts, cmd, exc, out,
                   exit_code, interrupted, isfile, interrupt_pc>>

\* lines 149-151: read the clock and compare it with the alarm instant
Poll ==
    /\ pc = "poll"
    /\ Len(readings) < MaxPolls
    /\ now' = clock
    /\ readings' = Append(readings, clock)
    /\ pc' = IF DtLeq(alarm_dt, clock) THEN "reached" ELSE "sleep"
    /\ UNCHANGED <<argv, platform, target_str, soundfile, target_time, err, clock,
                   confirm_now, alarm_dt, calls, attempts, cmd, exc, out,
                   exit_code, interrupted,
                   isfile, interrupt_pc>>

\* line 168: time.sleep(INTERVAL_SECONDS), after which the clock shows c
Sleep(c) ==
    /\ pc = "sleep"
    /\ clock' = c
    /\ pc' = "poll"
    /\ UNCHANGED <<argv, platform, target_str, soundfile, target_time, err,
                   confirm_now, alarm_dt, now, readings, calls, attempts, cmd, exc,
                   out, exit_code, interrupted,
                   isfile, interrupt_pc>>

\* line 153
Announce ==
    /\ pc = "reached"
    /\ out' = Append(out, "Alarm time reached")
    /\ pc' = "play_sound"
    /\ UNCHANGED <<argv, platform, target_str, soundfile, target_time, err, clock,
                   confirm_now, alarm_dt, now, readings, calls, attempts, cmd, exc,
                   exit_code, interrupted,
                   isfile, interrupt_pc>>

(***************************************************************************)
(* play_sound, called at line 156.  What the file system and the players   *)
(* answer is the environment's choice.                                     *)
(***************************************************************************)
\* where play_sound goes on after the mechanism at position p has failed:
\* the platform tests of lines 70, 78 and 87 in their order
AfterFailure(p) ==
    CASE p = "playsound" /\ platform = "darwin" -> "afplay"
      [] p \in {"playsound", "afplay"} /\ platform = "linux" -> "linux"
      [] p \in {"playsound", "afplay", "linux"} /\ platform = "win32" -> "powershell"
      [] OTHER -> "raise"

LinuxCommands == <<"paplay", "aplay", "ffplay">>

\* play_sound that looks for the file only once playsound has failed
PsIsFile_late(exists) ==
    /\ pc = "play_sound"
    /\ calls' = calls + 1
    /\ isfile' = <<exists>>
    /\ IF exists
       THEN pc' = "playsound" /\ UNCHANGED <<exc, attempts>>
       ELSE pc' = "failed" /\ exc' = "FileNotFoundError"
            /\ attempts' = Append(attempts, "playsound")
    /\ UNCHANGED <<argv, platform, target_str, soundfile, target_time, err, clock,
                   confirm_now, alarm_dt, now, readings, cmd, out,
                   exit_code, interrupted, interrupt_pc>>

\* lines 156, 56-58: the call; a missing file raises FileNotFoundError
PsIsFile(exists) ==
    /\ pc = "play_sound"
    /\ calls' = calls + 1
    /\ isfile' = <<exists>>
    /\ IF exists
       THEN pc' = "playsound" /\ UNCHANGED exc
       ELSE pc' = "failed" /\ exc' = "FileNotFoundError"
    /\ UNCHANGED <<argv, platform, target_str, soundfile, target_time, err, clock,
                   confirm_now, alarm_dt, now, readings, attempts, cmd, out,
                   exit_code, interrupted, interrupt_pc>>

\* lines 61-67: the playsound module
PsPlaysound(ok) ==
    /\ pc = "playsound"
    /\ attempts' = Append(attempts, "playsound")
    /\ pc' = IF ok THEN "played" ELSE AfterFailure("playsound")
    /\ cmd' = 1
    /\ UNCHANGED <<argv, platform, target_str, soundfile, target_time, err, clock,
                   confirm_now, alarm_dt, now, readings, calls, exc, out, exit_code,
                   interrupted,
                   isfile, interrupt_pc>>

\* lines 70-75: afplay on macOS
PsAfplay(ok) ==
    /\ pc = "afplay"
    /\ attempts' = Append(attempts, "afplay")
    /\ pc' = IF ok THEN "played" ELSE AfterFailure("afplay")
    /\ UNCHANGED <<argv, platform, target_str, soundfile, target_time, err, clock,
                   confirm_now, alarm_dt, now, readings, calls, cmd, exc, out,
                   exit_code, interrupted,
                   isfile, interrupt_pc>>

\* the loop over the Linux players with break for continue: a failed player
\* ends the loop
PsLinux_break(ok) ==
    /\ pc = "linux"
    /\ attempts' = Append(attempts, LinuxCommands[cmd])
    /\ pc' = IF ok THEN "played" ELSE AfterFailure("linux")
    /\ UNCHANGED <<argv, platform, target_str, soundfile, target_time, err, clock,
                   confirm_now, alarm_dt, now, readings, calls, cmd, exc, out,
                   exit_code, interrupted, isfile, interrupt_pc>>

\* lines 78-84: one turn of the loop over the Linux players
PsLinux(ok) ==
    /\ pc = "linux"
    /\ attempts' = Append(attempts, LinuxCommands[cmd])
    /\ IF ok THEN pc' = "played" /\ UNCHANGED cmd
       ELSE IF cmd < Len(LinuxCommands) THEN pc' = "linux" /\ cmd' = cmd + 1
       ELSE pc' = AfterFailure("linux") /\ UNCHANGED cmd
    /\ UNCHANGED <<argv, platform, target_str, soundfile, target_time, err, clock,
                   confirm_now, alarm_dt, now, readings, calls, exc, out, exit_code,
                   interrupted,
                   isfile, interrupt_pc>>

\* lines 87-98: PowerShell on Windows
PsPowershell(ok) ==
    /\ pc = "powershell"
    /\ attempts' = Append(attempts, "powershell")
    /\ pc' = IF ok THEN "played" ELSE AfterFailure("powershell")
    /\ UNCHANGED <<argv, platform, target_str, soundfile, target_time, err, clock,
                   confirm_now, alarm_dt, now, readings, calls, cmd, exc, out,
                   exit_code, interrupted,
                   isfile, interrupt_pc>>

\* line 101: no mechanism succeeded
PsRaise ==
    /\ pc = "raise"
    /\ exc' = "RuntimeError"
    /\ pc' = "failed"
    /\ UNCHANGED <<argv, platform, target_str, soundfile, target_time, err, clock,
                   confirm_now, alarm_dt, now, readings, calls, attempts, cmd, out,
                   exit_code, interrupted,
                   isfile, interrupt_pc>>

(***************************************************************************)
(* main after play_sound                                                   *)
(***************************************************************************)
\* line 159, in the handler of line 158
FailPrint ==
    /\ pc = "failed"
    /\ out' = Append(out, "Failed to play sound")
    /\ pc' = "exit3"
    /\ UNCHANGED <<argv, platform, target_str, soundfile, target_time, err, clock,
                   confirm_now, alarm_dt, now, readings, calls, attempts, cmd, exc,
                   exit_code, interrupted,
                   isfile, interrupt_pc>>

\* line 160
FailExit ==
    /\ pc = "exit3"
    /\ exit_code' = 3
    /\ pc' = "exited"
    /\ UNCHANGED <<argv, platform, target_str, soundfile, target_time, err, clock,
                   confirm_now, alarm_dt, now, readings, calls, attempts, cmd, exc,
                   out, interrupted,
                   isfile, interrupt_pc>>

\* line 162
DonePrint ==
    /\ pc = "played"
    /\ out' = Append(out, "Done.")
    /\ pc' = "return"
    /\ UNCHANGED <<argv, platform, target_str, soundfile, target_time, err, clock,
                   confirm_now, alarm_dt, now, readings, calls, attempts, cmd, exc,
                   exit_code, interrupted,
                   isfile, interrupt_pc>>

\* line 165: main returns and the process ends with status 0
Return ==
    /\ pc = "return"
    /\ exit_code' = 0
    /\ pc' = "exited"
    /\ UNCHANGED <<argv, platform, target_str, soundfile, target_time, err, clock,
                   confirm_now, alarm_dt, now, readings, calls, attempts, cmd, exc,
                   out, interrupted,
                   isfile, interrupt_pc>>

(***************************************************************************)
(* KeyboardInterrupt.  The interpreter raises it between two statements or *)
(* inside a blocking call; inside the try statement of lines 147-168 it    *)
(* reaches the handler of line 170 (the handlers of lines 66, 74, 83, 97   *)
(* and 158 catch Exception, which KeyboardInterrupt is not).  One          *)
(* interrupt per run is considered, delivered inside the try statement.    *)
(***************************************************************************)
TryBody == {"poll", "sleep", "reached", "play_sound", "playsound", "afplay",
            "linux", "powershell", "raise", "failed", "exit3", "played", "return"}

\* an interrupt that the mechanism it arrives in treats as one more failure
\* (a bare except in play_sound): the chain goes on to the next mechanism
Interrupt_absorbed ==
    /\ pc \in TryBody
    /\ ~interrupted
    /\ interrupted' = TRUE
    /\ interrupt_pc' = pc
    /\ IF pc \in {"playsound", "afplay", "linux", "powershell"}
       THEN /\ attempts' = Append(attempts, IF pc = "linux" THEN LinuxCommands[cmd]
                                            ELSE pc)
            /\ pc' = AfterFailure(pc)
       ELSE /\ pc' = "cancel"
            /\ UNCHANGED attempts
    /\ UNCHANGED <<argv, platform, target_str, soundfile, target_time, err, clock,
                   confirm_now, alarm_dt, now, readings, calls, cmd, exc,
                   out, exit_code, isfile>>

Interrupt ==
    /\ pc \in TryBody
    /\ ~interrupted
    /\ interrupted' = TRUE
    /\ interrupt_pc' = pc
    /\ pc' = "cancel"
    /\ UNCHANGED <<argv, platform, target_str, soundfile, target_time, err, clock,
                   confirm_now, alarm_dt, now, readings, calls, attempts, cmd, exc,
                   out, exit_code, isfile>>

\* Cancel that treats the interrupt as an error: exit status 1
Cancel_error ==
    /\ pc = "cancel"
    /\ out' = Append(out, "Alarm cancelled by user.")
    /\ exit_code' = 1
    /\ pc' = "exited"
    /\ UNCHANGED <<argv, platform, target_str, soundfile, target_time, err, clock,
                   confirm_now, alarm_dt, now, readings, calls, attempts, cmd, exc,
                   interrupted,
                   isfile, interrupt_pc>>

\* lines 171-172
Cancel ==
    /\ pc = "cancel"
    /\ out' = Append(out, "Alarm cancelled by user.")
    /\ exit_code' = 0
    /\ pc' = "exited"
    /\ UNCHANGED <<argv, platform, target_str, soundfile, target_time, err, clock,
                   confirm_now, alarm_dt, now, readings, calls, attempts, cmd, exc,
                   interrupted,
                   isfile, interrupt_pc>>

Next ==
    \/ ReadArgs
    \/ Parse
    \/ \E c \in ClockSamples : Confirm(c)
    \/ Poll
    \/ \E c \in ClockSamples : Sleep(c)
    \/ Announce
    \/ \E exists \in BOOLEAN : PsIsFile(exists)
    \/ \E ok \in BOOLEAN : PsPlaysound(ok)
    \/ \E ok \in BOOLEAN : PsAfplay(ok)
    \/ \E ok \in BOOLEAN : PsLinux(ok)
    \/ \E ok \in BOOLEAN : PsPowershell(ok)
    \/ PsRaise
    \/ FailPrint
    \/ FailExit
    \/ DonePrint
    \/ Return
    \/ Interrupt
    \/ Cancel

Spec == Init /\ [][Next]_vars

(***************************************************************************)
(* Spellings of a time of day                                              *)
(***************************************************************************)
Pad2(n) == <<Digits[(n \div 10) + 1], Digits[(n % 10) + 1]>>

Unpadded(n) == IF n < 10 THEN <<Digits[n + 1]>> ELSE Pad2(n)

HourText(h, pad) == IF pad THEN Pad2(h) ELSE Unpadded(h)

Blanks(k) == [i \in 1..k |-> " "]

AM == <<"A", "M">>

PM == <<"P", "M">>

\* "H:MM AM" / "H:MM PM", the hour with or without a leading zero
Str12(h, m, mer, pad) == HourText(h, pad) \o <<":">> \o Pad2(m) \o <<" ">> \o mer

\* "HH:MM", the hour with or without a leading zero
Str24(h, m, pad) == HourText(h, pad) \o <<":">> \o Pad2(m)

(***************************************************************************)
(* parse_target_time on its own: main from line 133 with any of the input  *)
(* strings below as its first argument.                                    *)
(***************************************************************************)
\* at most MaxPad blanks before and after the time string
MaxPad == 1

TwelveHourStrings ==
    {Str12(h, m, mer, pad) : h \in 1..12, m \in 0..59, mer \in {AM, PM},
                             pad \in BOOLEAN}

TwentyFourHourStrings ==
    {Str24(h, m, pad) : h \in 0..23, m \in 0..59, pad \in BOOLEAN}

\* digits, an optional colon, digits, blanks, a meridiem: well-formed and
\* ill-formed in every part
HourParts == {<<>>, <<"0">>, <<"7">>, <<"0", "7">>, <<"1", "2">>, <<"1", "3">>,
              <<"2", "5">>, <<"0", "0">>, <<"2", "3">>, <<"2", "4">>,
              <<"1", "2", "3">>, <<"1", "2", "3", "0">>}

ColonParts == {<<>>, <<":">>}

MinuteParts == {<<>>, <<"5">>, <<"0", "0">>, <<"3", "0">>, <<"5", "9">>,
                <<"6", "0">>, <<"9", "9">>}

MeridiemParts == {<<>>, AM, PM, <<"a", "m">>, <<"p", "m">>, <<"X", "M">>, <<"M">>}

AssembledStrings ==
    {Blanks(l) \o h \o c \o m \o Blanks(b) \o p \o Blanks(t) :
        l \in 0..MaxPad, h \in HourParts, c \in ColonParts, m \in MinuteParts,
        b \in 0..2, p \in MeridiemParts, t \in 0..MaxPad}

ParseInputs ==
    TwelveHourStrings \cup TwentyFourHourStrings \cup AssembledStrings
    \cup {<<"n", "o", "o", "n">>}

InitParse ==
    /\ target_str \in ParseInputs
    /\ argv = <<target_str>>
    /\ soundfile = DEFAULT_SOUND
    /\ platform = "linux"
    /\ clock = Instant(0, <<7, 0, 0, 0>>)
    /\ pc = "parse"
    /\ target_time = NoTime
    /\ err = <<>>
    /\ confirm_now = NoInstant
    /\ alarm_dt = NoInstant
    /\ now = NoInstant
    /\ readings = <<>>
    /\ calls = 0
    /\ attempts = <<>>
    /\ cmd = 0
    /\ exc = ""
    /\ out = <<>>
    /\ exit_code = -1
    /\ interrupted = FALSE
    /\ isfile = <<>>
    /\ interrupt_pc = ""

NextParse == Parse

SpecParse == InitParse /\ [][NextParse]_vars

(***************************************************************************)
(* confirm_target_today on its own: main at line 142 with any target time  *)
(* and any reading of the clock below.                                     *)
(***************************************************************************)
TargetTimes == {[hour |-> h, minute |-> m] : h \in 0..23, m \in {0, 1, 30, 59}}

NowSamples ==
    {[date |-> d, hour |-> h, minute |-> m, second |-> sec, microsecond |-> us] :
        d \in 0..MaxDate, h \in {0, 6, 7, 23}, m \in {0, 1, 30, 59},
        sec \in {0, 59}, us \in {0, 1, 999999}}

InitConfirm ==
    /\ target_time \in TargetTimes
    /\ clock \in NowSamples
    /\ target_str = Str24(target_time.hour, target_time.minute, TRUE)
    /\ argv = <<target_str>>
    /\ soundfile = DEFAULT_SOUND
    /\ platform = "linux"
    /\ pc = "confirm"
    /\ err = <<>>
    /\ confirm_now = NoInstant
    /\ alarm_dt = NoInstant
    /\ now = NoInstant
    /\ readings = <<>>
    /\ calls = 0
    /\ attempts = <<>>
    /\ cmd = 0
    /\ exc = ""
    /\ out = <<>>
    /\ exit_code = -1
    /\ interrupted = FALSE
    /\ isfile = <<>>
    /\ interrupt_pc = ""

NextConfirm == Confirm(clock)

SpecConfirm == InitConfirm /\ [][NextConfirm]_vars

(***************************************************************************)
(* A steady clock: time passes in time.sleep only, INTERVAL_SECONDS per    *)
(* call, and the process starts less than MaxPolls intervals before its    *)
(* target time of day.  Every statement that can run does run in the end;  *)
(* the interrupt may or may not come.                                      *)
(***************************************************************************)
\* the instant s seconds after day 0, at microsecond us
FromSeconds(s, us) ==
    [date |-> s \div 86400, hour |-> (s \div 3600) % 24,
     minute |-> (s \div 60) % 60, second |-> s % 60, microsecond |-> us]

\* t + timedelta(seconds=n)
AddSeconds(t, n) == FromSeconds(Seconds(t) + n, t.microsecond)

\* what parse_target_time gives for the command line a
TargetOf(a) == parse_target_time(IF Len(a) = 0 THEN DEFAULT_TIME ELSE a[1])

\* the clock at startup: up to MaxPolls - 1 intervals before the target time
\* of day, less a fraction of a second (any sampled instant for a command
\* line that is refused)
TickStarts(a) ==
    IF ~TargetOf(a).ok THEN ClockSamples
    ELSE {FromSeconds(Seconds(combine(d, TargetOf(a).time)) - k * INTERVAL_SECONDS, us) :
            d \in 0..MaxDate, k \in 1..(MaxPolls - 1), us \in {0, 1, 999999}}

InitTick ==
    /\ argv \in ArgvSamples
    /\ platform \in Platforms
    /\ clock \in TickStarts(argv)
    /\ pc = "args"
    /\ Fresh

\* time.sleep(60) for time.sleep(INTERVAL_SECONDS)
SleepInterval_minute == Sleep(AddSeconds(clock, 60))

\* line 168 under the steady clock
SleepInterval == Sleep(AddSeconds(clock, INTERVAL_SECONDS))

\* the statements of main and play_sound but the parsing of line 134 and
\* the interrupt
ProgressTick ==
    \/ ReadArgs
    \/ Confirm(clock)
    \/ Poll
    \/ SleepInterval
    \/ Announce
    \/ \E exists \in BOOLEAN : PsIsFile(exists)
    \/ \E ok \in BOOLEAN : PsPlaysound(ok)
    \/ \E ok \in BOOLEAN : PsAfplay(ok)
    \/ \E ok \in BOOLEAN : PsLinux(ok)
    \/ \E ok \in BOOLEAN : PsPowershell(ok)
    \/ PsRaise
    \/ FailPrint
    \/ FailExit
    \/ DonePrint
    \/ Return
    \/ Cancel

NextTick == Parse \/ ProgressTick \/ Interrupt

\* a statement that can run does run in the end: weak fairness on the
\* statements, which for Parse, enabled exactly at "parse" and leaving it,
\* says that the process is not at "parse" for ever
SpecTick ==
    /\ InitTick /\ [][NextTick]_vars
    /\ WF_vars(ProgressTick)
    /\ []<>(pc # "parse")

(***************************************************************************)
(* Properties                                                              *)
(***************************************************************************)
\* a < b on instants, field by field
Before(a, b) ==
    \/ a.date < b.date
    \/ a.date = b.date /\ a.hour < b.hour
    \/ a.date = b.date /\ a.hour = b.hour /\ a.minute < b.minute
    \/ a.date = b.date /\ a.hour = b.hour /\ a.minute = b.minute
       /\ a.second < b.second
    \/ a.date = b.date /\ a.hour = b.hour /\ a.minute = b.minute
       /\ a.second = b.second /\ a.microsecond < b.microsecond

\* the target's hour and minute on the day of the instant t, at second 0
SameDay(t, target) ==
    [date |-> t.date, hour |-> target.hour, minute |-> target.minute,
     second |-> 0, microsecond |-> 0]

Computed == alarm_dt # NoInstant

\* C1: the alarm instant confirm_target_today returns is strictly later than
\* the now it was computed at, also when now is exactly the target's
\* hour:minute:00.
C1_AlarmAfterNow == Computed => Before(confirm_now, alarm_dt)

\* now was exactly the target's hour:minute:00.000000
C1_Witness == Computed /\ confirm_now = SameDay(confirm_now, target_time)

\* C2: with c the target's hour:minute:00 on now's date, the result is c
\* when c > now and c plus exactly one calendar day when c <= now.
C2_SameDayOrNext ==
    Computed =>
        LET c == SameDay(confirm_now, target_time)
        IN IF Before(confirm_now, c)
           THEN alarm_dt = c
           ELSE alarm_dt = [c EXCEPT !.date = c.date + 1]

\* a day was added, for a now later in the day than the target
C2_Witness ==
    /\ Computed
    /\ Before(SameDay(confirm_now, target_time), confirm_now)
    /\ alarm_dt.date = confirm_now.date + 1

\* the reading r has reached the alarm instant: r >= alarm_dt
Reached(r) == ~Before(r, alarm_dt)

\* every reading but the last one is below the alarm instant
EarlierBelow == \A i \in 1..(Len(readings) - 1) : ~Reached(readings[i])

Exited == exit_code # -1

\* C3: the trigger is invoked at the first poll whose reading is >= the
\* alarm instant and at no earlier poll, no poll follows such a reading, it is
\* invoked at most once, and exactly once in a run that ends uncancelled
\* after entering the wait loop.
C3_TriggerOnceAtFirstReached ==
    /\ calls <= 1
    /\ EarlierBelow
    /\ calls = 1 => Len(readings) >= 1 /\ Reached(readings[Len(readings)])
    /\ (Exited /\ Computed /\ ~interrupted) => calls = 1

\* the readings reached the alarm instant on the third poll and the run ended
C3_Witness ==
    /\ Exited /\ ~interrupted
    /\ calls = 1
    /\ Len(readings) = 3
    /\ ~Reached(readings[1]) /\ ~Reached(readings[2]) /\ Reached(readings[3])

\* C4: an interrupt delivered in the wait loop before any poll has read a
\* value >= the alarm instant ends the run with the cancel message and exit
\* code 0, and the trigger is never invoked.
C4_CancelBeforeReached ==
    (interrupted /\ \A i \in 1..Len(readings) : ~Reached(readings[i])) =>
        /\ calls = 0
        /\ attempts = <<>>
        /\ pc \in {"cancel", "exited"}
        /\ pc = "exited" =>
              /\ exit_code = 0
              /\ out = <<"Alarm set for", "Sound file", "Alarm cancelled by user.">>

\* cancelled during a sleep, after a poll that read a value below the alarm
C4_Witness ==
    /\ interrupted /\ pc = "exited"
    /\ Len(readings) >= 1
    /\ \A i \in 1..Len(readings) : ~Reached(readings[i])

\* the time strings of the command lines that match no accepted pattern
UnmatchedTimes ==
    {t \in {IF Len(a) = 0 THEN DEFAULT_TIME ELSE a[1] : a \in ArgvSamples} :
        ~parse_target_time(t).ok}

\* C5: when the target time string matches no accepted pattern, the process
\* exits with code 2 and never enters the wait loop: no alarm instant is
\* computed, the clock is never polled, the trigger is never invoked.
C5_InvalidFormatExits2 ==
    (pc \notin {"args", "parse"} /\ target_str \in UnmatchedTimes) =>
        /\ pc = "exited"
        /\ exit_code = 2
        /\ out = <<"Error", "Accepted formats">>
        /\ alarm_dt = NoInstant /\ confirm_now = NoInstant
        /\ readings = <<>>
        /\ calls = 0
        /\ ~interrupted

\* "7:99 AM" was given and the process has exited
C5_Witness ==
    /\ target_str = <<"7", ":", "9", "9", " ", "A", "M">>
    /\ pc = "exited"

Printed(msg) == \E i \in 1..Len(out) : out[i] = msg

\* C6: when playback fails, the process exits with code 3, play_sound is not
\* invoked again, the alarm instant is not recomputed, the wait loop is not
\* re-entered and "Done." is not printed.
C6_PlaybackFailureExits3 ==
    exc # "" =>
        /\ calls = 1
        /\ ~Printed("Done.")
        /\ Reached(readings[Len(readings)])
        /\ pc \in {"failed", "exit3", "cancel", "exited"}
        /\ Exited => exit_code = 3

OutcomeMessages ==
    {"Done.", "Alarm cancelled by user.", "Error", "Failed to play sound"}

Signalled == {i \in 1..Len(out) : out[i] \in OutcomeMessages}

\* C7: every run ends in exactly one outcome, signalled once: completed
\* (exit 0), cancelled (exit 0), invalid format (exit 2) or playback failure
\* (exit 3); after it nothing more is polled, triggered or printed, and no
\* run signals two outcomes.
C7_OneOutcome ==
    /\ Cardinality(Signalled) <= 1
    /\ Exited =>
          /\ Cardinality(Signalled) = 1
          /\ exit_code = CASE Printed("Done.") -> 0
                            [] Printed("Alarm cancelled by user.") -> 0
                            [] Printed("Error") -> 2
                            [] Printed("Failed to play sound") -> 3

Parsed == pc # "parse"

StartsWith(s, prefix) ==
    Len(s) >= Len(prefix) /\ SubSeq(s, 1, Len(prefix)) = prefix

\* the 24-hour hour of the 12-hour hour h of the meridiem mer
Hour24(h, mer) == IF mer = AM THEN (IF h = 12 THEN 0 ELSE h)
                  ELSE (IF h = 12 THEN 12 ELSE h + 12)

\* the 12-hour hour and the meridiem of the 24-hour hour h
Hour12(h) == IF h % 12 = 0 THEN 12 ELSE h % 12

Meridiem(h) == IF h < 12 THEN AM ELSE PM

\* C8: "H:MM AM" and "H:MM PM" with H in 1..12 and MM in 00..59 parse to the
\* normalized 24-hour time: 12 AM is hour 0, 1..11 AM are 1..11, 12 PM is
\* 12, 1..11 PM are 13..23, and the minute is MM.
C8_TwelveHourNormalized ==
    (Parsed /\ Len(target_str) \in {7, 8}) =>
        \A h \in 1..12, pad \in BOOLEAN :
            StartsWith(target_str, HourText(h, pad) \o <<":">>) =>
                \A m \in 0..59, mer \in {AM, PM} :
                    target_str = Str12(h, m, mer, pad) =>
                        target_time = [hour |-> Hour24(h, mer), minute |-> m]

\* "12:30 AM" was parsed
C8_Witness ==
    /\ Parsed
    /\ target_str = <<"1", "2", ":", "3", "0", " ", "A", "M">>
    /\ target_time = [hour |-> 0, minute |-> 30]

\* The strings of the six templates: a 12-hour hour is 1..12 and a 24-hour
\* hour 0..23, each with or without a leading zero, a minute is two digits
\* 00..59, a meridiem is AM or PM in capitals or small letters, and a blank of
\* the template is one or two blanks.
Hours12 == {HourText(h, pad) : h \in 1..12, pad \in BOOLEAN}

Hours24 == {HourText(h, pad) : h \in 0..23, pad \in BOOLEAN}

Minutes == {Pad2(m) : m \in 0..59}

Meridiems == {AM, PM, <<"a", "m">>, <<"p", "m">>}

TemplateStrings ==
    {h \o <<":">> \o m \o Blanks(b) \o p :
        h \in Hours12, m \in Minutes, b \in 0..2, p \in Meridiems}
    \cup {h \o <<":">> \o m : h \in Hours24, m \in Minutes}
    \cup {h \o m : h \in Hours24, m \in Minutes}
    \cup {h \o Blanks(b) \o p : h \in Hours12, b \in 1..2, p \in Meridiems}
    \cup {h \o m \o Blanks(b) \o p :
            h \in Hours12, m \in Minutes, b \in 1..2, p \in Meridiems}

\* C9: a string that matches none of the six templates is refused with
\* ValueError and yields no time of day.
C9_NonTemplateRejected ==
    (Parsed /\ Strip(target_str) \notin TemplateStrings) =>
        /\ target_time = NoTime
        /\ exit_code = 2

\* C10: the 24-hour spelling of a time with a leading zero on the hour, the
\* one without, and its 12-hour spelling with AM or PM all parse to the same
\* time of day.
C10_SpellingsAgree ==
    (Parsed /\ Len(target_str) = 5) =>
        \A h \in 0..23 :
            StartsWith(target_str, Pad2(h) \o <<":">>) =>
                \A m \in 0..59 :
                    target_str = Str24(h, m, TRUE) =>
                        /\ target_time # NoTime
                        /\ target_time = parse_target_time(Str24(h, m, FALSE)).time
                        /\ target_time =
                             parse_target_time(
                                 Str12(Hour12(h), m, Meridiem(h), FALSE)).time

\* "22:00" was parsed, to the time "10:00 PM" parses to
C10_Witness ==
    /\ Parsed
    /\ target_str = <<"2", "2", ":", "0", "0">>
    /\ target_time = parse_target_time(<<"1", "0", ":", "0", "0", " ", "P", "M">>).time
    /\ target_time = [hour |-> 22, minute |-> 0]

\* the hour and minute of an instant as strftime("%H:%M") writes them
FormatHM(dt) == Pad2(dt.hour) \o <<":">> \o Pad2(dt.minute)

\* C11: the alarm instant has the target's hour and minute and second 0,
\* whether or not a day was added; its hour:minute written out and parsed
\* again is the target time.
C11_RoundTrip ==
    Computed =>
        /\ alarm_dt.hour = target_time.hour
        /\ alarm_dt.minute = target_time.minute
        /\ alarm_dt.second = 0
        /\ parse_target_time(FormatHM(alarm_dt)).time = target_time

\* a day was added, to a now that is past second 0 of its minute
C11_Witness ==
    /\ Computed
    /\ alarm_dt.date = confirm_now.date + 1
    /\ confirm_now.second = 59
    /\ alarm_dt.hour = target_time.hour
    /\ alarm_dt.second = 0

\* the formats of parse_formats that match the whole string s, by position
Matching(s) == {k \in 1..Len(parse_formats) : strptime(s, parse_formats[k]).ok}

\* C12: the time returned for an input is the one the earliest format of the
\* list that matches the stripped input produces, whatever a later format
\* would produce; the input is refused only when no format matches.
C12_FirstMatchWins ==
    Parsed =>
        LET s == Strip(target_str)
            m == Matching(s)
        IN IF m = {}
           THEN exit_code = 2 /\ target_time = NoTime
           ELSE \E k \in m :
                    /\ \A j \in m : k <= j
                    /\ target_time = strptime(s, parse_formats[k]).time
                    /\ exit_code = -1

\* "12 PM" was parsed: "%I %p" gives 12:00 and the later "%I%M %p" 13:02
C12_Witness ==
    /\ Parsed
    /\ target_str = <<"1", "2", " ", "P", "M">>
    /\ Matching(target_str) = {5, 6}
    /\ strptime(target_str, parse_formats[6]).time = [hour |-> 13, minute |-> 2]
    /\ target_time = [hour |-> 12, minute |-> 0]

\* C16: the ValueError of parse_target_time quotes the input string as the
\* caller passed it, leading and trailing blanks included.
C16_ErrorCarriesOriginal == (Parsed /\ exit_code = 2) => err = target_str

\* the playback mechanisms that apply on a platform, in the order they are
\* to be attempted
Applicable(p) ==
    <<"playsound">> \o
    (CASE p = "darwin" -> <<"afplay">>
       [] p = "linux" -> <<"paplay", "aplay", "ffplay">>
       [] p = "win32" -> <<"powershell">>
       [] OTHER -> <<>>)

IsPrefix(a, b) == Len(a) <= Len(b) /\ SubSeq(b, 1, Len(a)) = a

\* the positions of play_sound at which a mechanism is about to be attempted
MechanismPcs == {"playsound", "afplay", "linux", "powershell"}

Succeeded == pc \in {"played", "return"} \/ Printed("Done.")

\* the attempts made so far are the first applicable mechanisms in their
\* order; one more is attempted only while some are left; RuntimeError is
\* raised when all of them have been attempted, and then only
FallbackOrder ==
    /\ IsPrefix(attempts, Applicable(platform))
    /\ pc \in MechanismPcs => Len(attempts) < Len(Applicable(platform))
    /\ (pc = "raise" \/ exc = "RuntimeError") => attempts = Applicable(platform)
    /\ Succeeded => attempts # <<>> /\ exc = ""
    /\ (attempts # <<>> /\ ~Succeeded /\ ~interrupted) =>
          IF Len(attempts) < Len(Applicable(platform))
          THEN pc \in MechanismPcs
          ELSE pc = "raise" \/ exc = "RuntimeError"

\* attempts are made at the mechanism positions only, and after a success
\* or a failure of play_sound no mechanism position is entered again
NoAttemptAfter ==
    /\ pc \notin MechanismPcs => attempts' = attempts
    /\ pc \in {"played", "return", "raise", "failed", "exit3", "cancel", "exited"} =>
          pc' \notin MechanismPcs

\* C13: play_sound attempts the applicable mechanisms in the fixed order
\* playsound, afplay (macOS), paplay, aplay, ffplay (Linux), PowerShell
\* (Windows); it succeeds at the first one that completes and attempts none
\* after it; a failing one is followed by the next applicable one; it raises
\* RuntimeError exactly when every applicable one was attempted and failed.
C13_FallbackOrder == [] FallbackOrder /\ [][NoAttemptAfter]_vars

\* on Linux playsound and paplay failed and aplay has played the sound
C13_Witness ==
    /\ platform = "linux"
    /\ pc = "played"
    /\ attempts = <<"playsound", "paplay", "aplay">>

\* C14: when the sound path is not an existing regular file, play_sound
\* raises FileNotFoundError and no playback mechanism is attempted, in that
\* call or after it.
C14_MissingFileBeforePlayback ==
    isfile = <<FALSE>> =>
        /\ attempts = <<>>
        /\ exc = "FileNotFoundError"
        /\ pc \in {"failed", "exit3", "cancel", "exited"}
        /\ calls = 1

\* the file was missing and the run has ended
C14_Witness == isfile = <<FALSE>> /\ exit_code = 3 /\ attempts = <<>>

\* the positions inside play_sound, from its first mechanism to its raise
PlaySoundPcs == MechanismPcs \cup {"raise"}

\* a run interrupted inside play_sound goes to the cancel handler and
\* nowhere else, and reports neither completion nor a playback failure
InterruptedInPlaySound ==
    interrupt_pc \in PlaySoundPcs =>
        /\ pc \in {"cancel", "exited"}
        /\ calls = 1
        /\ exc = ""
        /\ ~Printed("Done.")
        /\ ~Printed("Failed to play sound")
        /\ pc = "exited" =>
              /\ exit_code = 0
              /\ out = <<"Alarm set for", "Sound file", "Alarm time reached",
                         "Alarm cancelled by user.">>

\* C18: an interrupt delivered while play_sound is running is not taken for
\* a failure of the mechanism it arrives in: no further mechanism is
\* attempted, "Done." is not printed, and the run ends with the cancel
\* message and exit code 0.
C18_InterruptNotAbsorbed ==
    [] InterruptedInPlaySound /\ [][interrupted' => attempts' = attempts]_vars

\* interrupted on Linux while paplay was running, after playsound had
\* failed, and the run has ended
C18_Witness ==
    /\ interrupt_pc = "linux"
    /\ platform = "linux"
    /\ attempts = <<"playsound">>
    /\ pc = "exited"
    /\ exit_code = 0

\* C19: a playback failure (the missing sound file included) is raised,
\* reported and turned into exit code 3 only after a poll of the wait loop
\* has read a value >= the alarm instant: the file is not looked for and
\* play_sound is not called before that.
C19_FailureOnlyAfterReached ==
    (\/ exit_code = 3
     \/ Printed("Failed to play sound")
     \/ exc # ""
     \/ isfile # <<>>
     \/ calls > 0) =>
        /\ Len(readings) >= 1
        /\ Reached(readings[Len(readings)])

\* the file was found missing after one poll below the alarm instant and one
\* that reached it, and the run ended with exit code 3
C19_Witness ==
    /\ exit_code = 3
    /\ isfile = <<FALSE>>
    /\ Len(readings) = 2
    /\ ~Reached(readings[1]) /\ Reached(readings[2])

\* the instant t moved by n calendar days (n may be negative)
DayShift(t, n) == [t EXCEPT !.date = @ + n]

\* C20: the alarm instant is the earliest instant strictly after now whose
\* hour:minute:second is the target's hour:minute:00, and it is never more
\* than one day after now: now < result <= now + 1 day.
C20_EarliestWithinOneDay ==
    Computed =>
        /\ alarm_dt.hour = target_time.hour
        /\ alarm_dt.minute = target_time.minute
        /\ alarm_dt.second = 0 /\ alarm_dt.microsecond = 0
        /\ Before(confirm_now, alarm_dt)
        /\ ~Before(DayShift(confirm_now, 1), alarm_dt)
        /\ ~Before(confirm_now, DayShift(alarm_dt, -1))

\* now is the target's hour:minute:00 exactly and the result is one whole
\* day after it
C20_Witness ==
    /\ Computed
    /\ alarm_dt = DayShift(confirm_now, 1)
    /\ confirm_now.hour = 23 /\ confirm_now.minute = 59

\* C15: with a clock that advances by INTERVAL_SECONDS in each sleep and not
\* otherwise, and a first reading below the alarm instant, consecutive
\* readings are exactly one sleep apart and the trigger is invoked at a
\* reading t with alarm_dt <= t < alarm_dt + INTERVAL_SECONDS.
C15_LatenessBounded ==
    (Len(readings) >= 1 /\ ~Reached(readings[1])) =>
        /\ \A i \in 1..(Len(readings) - 1) :
              readings[i + 1] = AddSeconds(readings[i], INTERVAL_SECONDS)
        /\ calls = 1 =>
              /\ now = readings[Len(readings)]
              /\ ~Before(now, alarm_dt)
              /\ Before(now, AddSeconds(alarm_dt, INTERVAL_SECONDS))

\* the trigger was invoked at the third reading, one microsecond less than
\* a whole interval after the alarm instant
C15_Witness ==
    /\ calls = 1
    /\ Len(readings) = 3
    /\ ~Reached(readings[1])
    /\ now = [alarm_dt EXCEPT !.microsecond = 999999]

\* the wait loop has been left only by a reading >= the alarm instant or by
\* the interrupt
LoopLeft ==
    (Computed /\ pc \notin {"poll", "sleep"}) =>
        \/ interrupted
        \/ Len(readings) >= 1 /\ Reached(readings[Len(readings)])

\* C17: with a clock that advances in every sleep, the run ends; when no
\* interrupt is delivered the loop has read a value >= the alarm instant and
\* the trigger was invoked before it ends; the loop is left by reaching the
\* alarm instant or by cancellation only.
C17_EventuallyTriggers ==
    /\ [] LoopLeft
    /\ <>(Exited /\ ((~interrupted /\ Computed) => (calls = 1 /\ Reached(now))))

\* an uninterrupted run that slept, reached the alarm, played and ended
C17_Witness ==
    /\ Exited /\ ~interrupted
    /\ Len(readings) >= 2
    /\ calls = 1
    /\ Printed("Done.")

====
